---- MODULE Spec2Model ----
(***************************************************************************)
(* Model of the plotting helpers plot_basis2d.py (field cross-section      *)
(* sampler) and plot_vec3d.py (vector drawing helper).                     *)
(*                                                                         *)
(* Arithmetic.  The sampler mixes O(1) coordinates with a perturbation of  *)
(* size 10*eps, eps = np.finfo(float).eps.  A real number is modelled      *)
(* exactly as a pair <<c, e>> of integers standing for (c + e*eps) / Den,  *)
(* eps being a positive infinitesimal: every quantity the code computes    *)
(* from integer node coordinates is of that form (no eps^2 term occurs,    *)
(* because the perturbation is only ever multiplied by un-perturbed        *)
(* numbers).  Floating-point rounding is not modelled.                     *)
(*                                                                         *)
(* Indices are 1-based here and 0-based in the Python source.              *)
(***************************************************************************)
EXTENDS Integers, Sequences, FiniteSets, TLC

\* np.linspace(0, 1) uses its default num=50 (plot_basis2d.py line 13)
NumSamples == 50
\* s = 10*eps (plot_basis2d.py line 19)
SFactor == 10
\* midpoint = np.sum(mesh.p, axis=1) / 3 (plot_basis2d.py line 18)
CentroidDiv == 3

\* bound on the number of top-level calls the caller makes
MaxCalls == 2

\* common denominator of the modelled reals
Den == CentroidDiv * (NumSamples - 1)

---------------------------------------------------------------------------
(* Reals of the form (c + e*eps)/Den *)

Num(c, e) == <<c, e>>
NumInt(n) == <<Den * n, 0>>
NumZero == <<0, 0>>
NumAdd(a, b) == <<a[1] + b[1], a[2] + b[2]>>
NumSub(a, b) == <<a[1] - b[1], a[2] - b[2]>>
NumScale(n, a) == <<n * a[1], n * a[2]>>
\* a >= 0, eps a positive infinitesimal
NumNonNeg(a) == a[1] > 0 \/ (a[1] = 0 /\ a[2] >= 0)

---------------------------------------------------------------------------
(* The meshes (external: skfem).  p: node coordinates, t: elements (node   *)
(* index triples), facets: node index pairs.  "refdom" is the mesh of      *)
(* init_refdom(); "square" is the unit square cut in two triangles;        *)
(* "wedge" is the triangle (0,0), (2,0), (0,1) cut in two triangles.       *)

MeshNames == {"refdom", "square", "wedge"}

Mesh(b) ==
  CASE b = "refdom" ->
         [p      |-> << <<0, 0>>, <<1, 0>>, <<0, 1>> >>,
          t      |-> << <<1, 2, 3>> >>,
          facets |-> << <<1, 2>>, <<1, 3>>, <<2, 3>> >>]
    [] b = "square" ->
         [p      |-> << <<0, 0>>, <<1, 0>>, <<0, 1>>, <<1, 1>> >>,
          t      |-> << <<1, 2, 3>>, <<2, 3, 4>> >>,
          facets |-> << <<1, 2>>, <<1, 3>>, <<2, 3>>, <<2, 4>>, <<3, 4>> >>]
    [] OTHER ->
         [p      |-> << <<0, 0>>, <<1, 0>>, <<0, 1>>, <<2, 0>> >>,
          t      |-> << <<1, 2, 3>>, <<2, 4, 3>> >>,
          facets |-> << <<1, 2>>, <<1, 3>>, <<2, 3>>, <<2, 4>>, <<3, 4>> >>]

NumNodes(b) == Len(Mesh(b).p)

RECURSIVE SumCoord(_, _, _)
\* sum of coordinate d over the first n nodes: np.sum(mesh.p, axis=1)[d]
SumCoord(b, d, n) == IF n = 0 THEN 0 ELSE SumCoord(b, d, n - 1) + Mesh(b).p[n][d]

---------------------------------------------------------------------------
(* plot_cross_sec, lines 13-21: the sample points *)

\* faulty variant: one sample short: np.linspace(0, 1, 49)
LinspaceShort == [i \in 1..(NumSamples - 1) |-> i - 1]

\* ts = np.linspace(0, 1): ts[i] = Linspace01[i] / (NumSamples - 1)
Linspace01 == [i \in 1..NumSamples |-> i - 1]

\* the i-th entry of (1 - ts)*a + ts*b for integer a, b, in units of 1/Den
\* (lines 14-15)
Interp(a, b, i) ==
  CentroidDiv * (((NumSamples - 1) - Linspace01[i]) * a + Linspace01[i] * b)

\* midpoint = np.sum(mesh.p, axis=1) / 3, in units of 1/Den (line 18)
Midpoint(b) ==
  << (Den \div CentroidDiv) * SumCoord(b, 1, NumNodes(b)),
     (Den \div CentroidDiv) * SumCoord(b, 2, NumNodes(b)) >>

\* faulty variant: s = eps instead of s = 10*eps
NudgeByEps(x, target) == Num(x, target - x)

\* (1-s)*x + s*target with s = SFactor*eps, x and target in units of 1/Den:
\* x + SFactor*eps*(target - x)  (lines 19-21)
Nudge(x, target) == Num(x, SFactor * (target - x))

\* xs after line 20: xs = (1-s)*xs + s*midpoint[0]
NudgedXs(ps, mid) ==
  [i \in DOMAIN Linspace01 |-> Nudge(Interp(ps[1][1], ps[2][1], i), mid[1])]

\* faulty variant: the y coordinates moved toward midpoint[1]
YTargetOwn(mid) == mid[2]

\* the component of midpoint the y coordinates are moved toward (line 21)
YTarget(mid) == mid[1]

\* ys after line 21: ys = (1-s)*ys + s*midpoint[0]
NudgedYs(ps, mid) ==
  [i \in DOMAIN Linspace01 |-> Nudge(Interp(ps[1][2], ps[2][2], i), YTarget(mid))]

\* np.stack((xs, ys)): the points, one <<x, y>> per sample
Stack(xs, ys) == [i \in DOMAIN xs |-> <<xs[i], ys[i]>>]

\* np.zeros_like(xs)
ZerosLike(xs) == [i \in DOMAIN xs |-> NumZero]

---------------------------------------------------------------------------
(* The external collaborators: basis.probes (skfem) and the matrix-vector  *)
(* product probe @ u (numpy), for piecewise-linear (P1) elements            *)

\* barycentric coordinates of point P = <<X, Y>> in the triangle tri of
\* mesh b, in units of 1/Den; the triangles of Mesh have determinant +-1,
\* so the division by the determinant is exact
Barycentric(b, tri, P) ==
  LET p1 == Mesh(b).p[tri[1]]
      p2 == Mesh(b).p[tri[2]]
      p3 == Mesh(b).p[tri[3]]
      det == (p2[1] - p1[1]) * (p3[2] - p1[2]) - (p3[1] - p1[1]) * (p2[2] - p1[2])
      dX == NumSub(P[1], NumInt(p1[1]))
      dY == NumSub(P[2], NumInt(p1[2]))
      l2 == NumScale(det, NumSub(NumScale(p3[2] - p1[2], dX), NumScale(p3[1] - p1[1], dY)))
      l3 == NumScale(det, NumSub(NumScale(p2[1] - p1[1], dY), NumScale(p2[2] - p1[2], dX)))
  IN  << NumSub(NumSub(NumInt(1), l2), l3), l2, l3 >>

\* the point lies in the (closed) triangle
InTriangle(b, tri, P) ==
  LET lam == Barycentric(b, tri, P)
  IN  NumNonNeg(lam[1]) /\ NumNonNeg(lam[2]) /\ NumNonNeg(lam[3])

RECURSIVE FindFrom(_, _, _)
\* the first element of mesh b, from element e on, that contains P; 0 if none
FindFrom(b, P, e) ==
  IF e > Len(Mesh(b).t) THEN 0
  ELSE IF InTriangle(b, Mesh(b).t[e], P) THEN e
  ELSE FindFrom(b, P, e + 1)

\* every point lies in some element of the mesh
InDomain(b, pts) == \A i \in DOMAIN pts : FindFrom(b, pts[i], 1) # 0

\* row of the interpolation matrix for the point P: the P1 basis functions
\* of the first element containing P, evaluated at P
ProbeRow(b, P) ==
  LET tri == Mesh(b).t[FindFrom(b, P, 1)]
      lam == Barycentric(b, tri, P)
  IN  [j \in 1..NumNodes(b) |->
         IF j = tri[1] THEN lam[1]
         ELSE IF j = tri[2] THEN lam[2]
         ELSE IF j = tri[3] THEN lam[3]
         ELSE NumZero]

\* basis.probes(pts): the matrix mapping coefficients to values at pts
Probes(b, pts) == [i \in DOMAIN pts |-> ProbeRow(b, pts[i])]

RECURSIVE Dot(_, _, _)
\* sum over the first n columns of row[j] * uu[j]
Dot(row, uu, n) ==
  IF n = 0 THEN NumZero ELSE NumAdd(Dot(row, uu, n - 1), NumScale(uu[n], row[n]))

\* probe @ u is defined when the shapes agree
ShapesAgree(P, uu) == \A i \in DOMAIN P : Len(P[i]) = Len(uu)

\* probe @ u
MatVec(P, uu) == [i \in DOMAIN P |-> Dot(P[i], uu, Len(uu))]

\* the node coordinates as points (mesh.p handed to basis.probes, line 40)
NodePoints(b) ==
  [i \in DOMAIN Mesh(b).p |-> <<NumInt(Mesh(b).p[i][1]), NumInt(Mesh(b).p[i][2])>>]

---------------------------------------------------------------------------
(* State *)

VARIABLES
  basis,    \* the caller's basis object (names its mesh)
  u,        \* the caller's coefficient vector
  ax,       \* the plotting context: the draw calls issued on plt.gca(), in order
  calls,    \* the invocations of plot_cross_sec so far: their arguments
  nprobe,   \* the number of basis.probes calls so far
  top,      \* the caller's current (or last) call: its name, and the lengths
            \* of ax and calls when it started
  fn,       \* the function that is executing ("caller": none of this module)
  ip,       \* the statement of fn's body that executes next
  k,        \* the loop index of fn's for loop
  frame,    \* the local variables of plot_cross_sec / plot_nodal_vals
  err,      \* the exception the caller's current (or last) call raised
  fault,    \* the exception an external operation raised during that call
  ret,      \* the value the caller's last call returned
  ncalls,   \* the number of calls the caller has made
  odef,     \* the array that is plot_vec's default for o (one shared object)
  vcall,    \* plot_vec's arguments as handed over, and as they are afterwards
  cf        \* the arguments of plot_coeffs

vars == <<basis, u, ax, calls, nprobe, top, fn, ip, k, frame, err, fault, ret,
          ncalls, odef, vcall, cf>>

samplerVars == <<basis, u, calls, nprobe, k, frame>>
vecVars == <<odef, vcall, cf>>

\* the inputs the caller draws from
Coeffs == {<<1, 2, 3>>, <<1, 2, 3, 4>>}
Segments == { << <<0, 0>>, <<1, 0>> >>,
              << <<1, 0>>, <<0, 1>> >>,
              << <<0, 0>>, <<2, 0>> >> }

Zero3 == <<0, 0, 0>>
NoFrame ==
  [u |-> <<>>, ps |-> <<>>, basis |-> "", midpoint |-> <<>>, xs |-> <<>>,
   ys |-> <<>>, parg |-> <<>>, probe |-> <<>>, zs |-> <<>>, n0 |-> 0, np |-> 0]
NoVCall ==
  [v |-> <<>>, o |-> <<>>, dflt |-> FALSE, args |-> "", vafter |-> <<>>, oafter |-> <<>>]
NoCf == [x |-> <<>>, a0 |-> <<>>, a1 |-> <<>>, args |-> "", kw |-> FALSE, o |-> <<>>]
RetUnset == [kind |-> "unset", val |-> <<>>]
RetNone == [kind |-> "None", val |-> <<>>]
NoTop == [op |-> "none", n0 |-> 0, c0 |-> 0]

---------------------------------------------------------------------------
(* Control *)

\* faulty variant: the dashed line drawn before the probe
CrossSecBodyDrawFirst == <<"plot_dashed", "probes", "matmul", "plot_solid">>

\* the statements of plot_cross_sec that call out, in program order
\* (lines 22, 23, 25, 26)
CrossSecBody == <<"probes", "matmul", "plot_dashed", "plot_solid">>

\* the statements of plot_nodal_vals that call out, in program order
\* (lines 40, 41, 44, 45-47)
NodalBody == <<"probes", "matmul", "plot_markers", "drop_lines">>

\* faulty variant: plot_facet_vals catches the exception and goes on with its loop
RaiseCaughtInLoop(exc, o) ==
  [fn |-> IF o = "plot_facet_vals" THEN "plot_facet_vals" ELSE "caller", err |-> exc]

\* an exception raised in a function of this module: nothing catches it, so
\* every active function is left and the caller gets the exception
Raise(exc, o) == [fn |-> "caller", err |-> exc]

AtStep(f, body, name) == fn = f /\ ip \in DOMAIN body /\ body[ip] = name

\* the caller starts the call o
Begin(o) ==
  /\ fn = "caller"
  /\ ncalls < MaxCalls
  /\ ncalls' = ncalls + 1
  /\ top' = [op |-> o, n0 |-> Len(ax), c0 |-> Len(calls)]
  /\ err' = "none"
  /\ fault' = "none"
  /\ ret' = RetUnset

\* the statement at ip raised exc
Fails(exc) ==
  /\ fn' = Raise(exc, top.op).fn
  /\ err' = Raise(exc, top.op).err
  /\ fault' = exc
  /\ UNCHANGED <<ip, k, ret>>

---------------------------------------------------------------------------
(* plot_cross_sec (lines 8-26) *)

\* the locals after lines 12-21
EnterCrossSec(uu, ps, b, n0) ==
  [u |-> uu, ps |-> ps, basis |-> b, midpoint |-> Midpoint(b),
   xs |-> NudgedXs(ps, Midpoint(b)), ys |-> NudgedYs(ps, Midpoint(b)),
   parg |-> <<>>, probe |-> <<>>, zs |-> <<>>, n0 |-> n0, np |-> 0]

\* faulty variant: the probe on the points before the nudge
CrossSecProbeArgRaw(fr) ==
  [i \in DOMAIN fr.xs |-> << Num(fr.xs[i][1], 0), Num(fr.ys[i][1], 0) >>]

\* the argument of basis.probes (line 22)
CrossSecProbeArg(fr) == Stack(fr.xs, fr.ys)

\* ax3d.plot(xs, ys, np.zeros_like(xs), 'k--') (line 25)
DashedLine(fr) == [xs |-> fr.xs, ys |-> fr.ys, zs |-> ZerosLike(fr.xs), fmt |-> "k--"]

\* ax3d.plot(xs, ys, zs, 'k') (line 26)
SolidLine(fr) == [xs |-> fr.xs, ys |-> fr.ys, zs |-> fr.zs, fmt |-> "k"]

\* what plot_cross_sec returns: it has no return statement
CrossSecResult(fr) == RetNone

\* the caller calls plot_cross_sec(u, ps, basis)
CallCrossSec ==
  \E ps \in Segments :
    /\ Begin("plot_cross_sec")
    /\ fn' = "plot_cross_sec"
    /\ ip' = 1
    /\ frame' = EnterCrossSec(u, ps, basis, Len(ax))
    /\ calls' = Append(calls, [u |-> u, ps |-> ps, basis |-> basis])
    /\ UNCHANGED <<basis, u, ax, nprobe, k, vecVars>>

\* probe = basis.probes(np.stack((xs, ys))) (line 22)
CrossSecProbe ==
  /\ AtStep("plot_cross_sec", CrossSecBody, "probes")
  /\ nprobe' = nprobe + 1
  /\ \E ok \in BOOLEAN :
       IF ok /\ InDomain(frame.basis, CrossSecProbeArg(frame))
       THEN /\ frame' = [frame EXCEPT !.parg = CrossSecProbeArg(frame),
                                      !.probe = Probes(frame.basis, CrossSecProbeArg(frame)),
                                      !.np = @ + 1]
            /\ ip' = ip + 1
            /\ UNCHANGED <<fn, err, fault, k, ret>>
       ELSE /\ frame' = [frame EXCEPT !.parg = CrossSecProbeArg(frame), !.np = @ + 1]
            /\ Fails("ProbeError")
  /\ UNCHANGED <<basis, u, ax, calls, top, ncalls, vecVars>>

\* zs = probe @ u (line 23)
CrossSecMatVec ==
  /\ AtStep("plot_cross_sec", CrossSecBody, "matmul")
  /\ IF ShapesAgree(frame.probe, frame.u)
     THEN /\ frame' = [frame EXCEPT !.zs = MatVec(frame.probe, frame.u)]
          /\ ip' = ip + 1
          /\ UNCHANGED <<fn, err, fault, k, ret>>
     ELSE /\ Fails("ShapeError")
          /\ UNCHANGED frame
  /\ UNCHANGED <<basis, u, ax, calls, nprobe, top, ncalls, vecVars>>

\* one ax3d.plot call of plot_cross_sec: it draws, or it raises
CrossSecPlot(name, line) ==
  /\ AtStep("plot_cross_sec", CrossSecBody, name)
  /\ \E ok \in BOOLEAN :
       IF ok
       THEN /\ ax' = Append(ax, line)
            /\ ip' = ip + 1
            /\ UNCHANGED <<fn, err, fault, k, ret>>
       ELSE /\ Fails("DrawError")
            /\ UNCHANGED ax
  /\ UNCHANGED <<basis, u, calls, nprobe, top, frame, ncalls, vecVars>>

\* line 25
CrossSecDashed == CrossSecPlot("plot_dashed", DashedLine(frame))

\* line 26
CrossSecSolid == CrossSecPlot("plot_solid", SolidLine(frame))

\* the end of plot_cross_sec: back in plot_facet_vals' loop, or in the caller
CrossSecReturn ==
  /\ fn = "plot_cross_sec"
  /\ ip > Len(CrossSecBody)
  /\ IF top.op = "plot_facet_vals"
     THEN /\ fn' = "plot_facet_vals"
          /\ k' = k + 1
          /\ UNCHANGED ret
     ELSE /\ fn' = "caller"
          /\ ret' = CrossSecResult(frame)
          /\ UNCHANGED k
  /\ UNCHANGED <<basis, u, ax, calls, nprobe, top, ip, frame, err, fault, ncalls,
                 vecVars>>

---------------------------------------------------------------------------
(* plot_facet_vals (lines 28-33) *)

\* faulty variant: both endpoints taken from the facet's first node
FacetArgsOneNode(uu, b, i) ==
  [u |-> uu,
   ps |-> << Mesh(b).p[Mesh(b).facets[i][1]], Mesh(b).p[Mesh(b).facets[i][1]] >>,
   basis |-> b]

\* the arguments of the call for the k-th facet:
\* plot_cross_sec(u, basis.mesh.p[:, facet], basis) (line 33)
FacetArgs(uu, b, i) ==
  [u |-> uu,
   ps |-> << Mesh(b).p[Mesh(b).facets[i][1]], Mesh(b).p[Mesh(b).facets[i][2]] >>,
   basis |-> b]

\* the caller calls plot_facet_vals(u, basis)
CallFacetVals ==
  /\ Begin("plot_facet_vals")
  /\ fn' = "plot_facet_vals"
  /\ k' = 1
  /\ UNCHANGED <<basis, u, ax, calls, nprobe, ip, frame, vecVars>>

\* line 32-33: the loop takes the next facet and calls plot_cross_sec
FacetCall ==
  /\ fn = "plot_facet_vals"
  /\ k <= Len(Mesh(basis).facets)
  /\ fn' = "plot_cross_sec"
  /\ ip' = 1
  /\ frame' = EnterCrossSec(FacetArgs(u, basis, k).u, FacetArgs(u, basis, k).ps,
                            FacetArgs(u, basis, k).basis, Len(ax))
  /\ calls' = Append(calls, FacetArgs(u, basis, k))
  /\ UNCHANGED <<basis, u, ax, nprobe, top, k, err, fault, ret, ncalls, vecVars>>

\* the loop is exhausted: plot_facet_vals returns
FacetReturn ==
  /\ fn = "plot_facet_vals"
  /\ k > Len(Mesh(basis).facets)
  /\ fn' = "caller"
  /\ ret' = RetNone
  /\ UNCHANGED <<basis, u, ax, calls, nprobe, top, ip, k, frame, err, fault, ncalls,
                 vecVars>>

---------------------------------------------------------------------------
(* plot_nodal_vals (lines 35-47) *)

\* the locals: xs, ys = mesh.p (line 42)
EnterNodal(uu, b, n0) ==
  [u |-> uu, ps |-> <<>>, basis |-> b, midpoint |-> <<>>,
   xs |-> [i \in DOMAIN Mesh(b).p |-> NumInt(Mesh(b).p[i][1])],
   ys |-> [i \in DOMAIN Mesh(b).p |-> NumInt(Mesh(b).p[i][2])],
   parg |-> <<>>, probe |-> <<>>, zs |-> <<>>, n0 |-> n0, np |-> 0]

\* the argument of basis.probes: mesh.p (line 40)
NodalProbeArg(fr) == NodePoints(fr.basis)

\* ax3d.plot(xs, ys, zs, 'ko') (line 44)
Markers(fr) == [xs |-> fr.xs, ys |-> fr.ys, zs |-> fr.zs, fmt |-> "ko"]

\* faulty variant: the drop line given the value of the wrong node
DropLineShifted(fr, i) ==
  [xs |-> <<fr.xs[i], fr.xs[i]>>, ys |-> <<fr.ys[i], fr.ys[i]>>,
   zs |-> <<NumZero, fr.zs[(i % Len(fr.zs)) + 1]>>, fmt |-> "k:"]

\* ax3d.plot([x, x], [y, y], [0, z], 'k:') for node i (lines 46-47)
DropLine(fr, i) ==
  [xs |-> <<fr.xs[i], fr.xs[i]>>, ys |-> <<fr.ys[i], fr.ys[i]>>,
   zs |-> <<NumZero, fr.zs[i]>>, fmt |-> "k:"]

\* the caller calls plot_nodal_vals(u, basis)
CallNodalVals ==
  /\ Begin("plot_nodal_vals")
  /\ fn' = "plot_nodal_vals"
  /\ ip' = 1
  /\ k' = 1
  /\ frame' = EnterNodal(u, basis, Len(ax))
  /\ UNCHANGED <<basis, u, ax, calls, nprobe, vecVars>>

\* probe = basis.probes(mesh.p) (line 40)
NodalProbe ==
  /\ AtStep("plot_nodal_vals", NodalBody, "probes")
  /\ nprobe' = nprobe + 1
  /\ \E ok \in BOOLEAN :
       IF ok /\ InDomain(frame.basis, NodalProbeArg(frame))
       THEN /\ frame' = [frame EXCEPT !.parg = NodalProbeArg(frame),
                                      !.probe = Probes(frame.basis, NodalProbeArg(frame)),
                                      !.np = @ + 1]
            /\ ip' = ip + 1
            /\ UNCHANGED <<fn, err, fault, k, ret>>
       ELSE /\ frame' = [frame EXCEPT !.parg = NodalProbeArg(frame), !.np = @ + 1]
            /\ Fails("ProbeError")
  /\ UNCHANGED <<basis, u, ax, calls, top, ncalls, vecVars>>

\* zs = probe @ u (line 41)
NodalMatVec ==
  /\ AtStep("plot_nodal_vals", NodalBody, "matmul")
  /\ IF ShapesAgree(frame.probe, frame.u)
     THEN /\ frame' = [frame EXCEPT !.zs = MatVec(frame.probe, frame.u)]
          /\ ip' = ip + 1
          /\ UNCHANGED <<fn, err, fault, k, ret>>
     ELSE /\ Fails("ShapeError")
          /\ UNCHANGED frame
  /\ UNCHANGED <<basis, u, ax, calls, nprobe, top, ncalls, vecVars>>

\* ax3d.plot(xs, ys, zs, 'ko') (line 44): it draws, or it raises
NodalMarkers ==
  /\ AtStep("plot_nodal_vals", NodalBody, "plot_markers")
  /\ \E ok \in BOOLEAN :
       IF ok
       THEN /\ ax' = Append(ax, Markers(frame))
            /\ ip' = ip + 1
            /\ UNCHANGED <<fn, err, fault, k, ret>>
       ELSE /\ Fails("DrawError")
            /\ UNCHANGED ax
  /\ UNCHANGED <<basis, u, calls, nprobe, top, frame, ncalls, vecVars>>

\* for i in range(len(xs)): one drop line per pass (lines 45-47), until the
\* range is exhausted
NodalDropLine ==
  /\ AtStep("plot_nodal_vals", NodalBody, "drop_lines")
  /\ IF k <= Len(frame.xs)
     THEN \E ok \in BOOLEAN :
            IF ok
            THEN /\ ax' = Append(ax, DropLine(frame, k))
                 /\ k' = k + 1
                 /\ UNCHANGED <<fn, ip, err, fault, ret>>
            ELSE /\ Fails("DrawError")
                 /\ UNCHANGED ax
     ELSE /\ ip' = ip + 1
          /\ UNCHANGED <<ax, fn, k, err, fault, ret>>
  /\ UNCHANGED <<basis, u, calls, nprobe, top, frame, ncalls, vecVars>>

\* the end of plot_nodal_vals
NodalReturn ==
  /\ fn = "plot_nodal_vals"
  /\ ip > Len(NodalBody)
  /\ fn' = "caller"
  /\ ret' = RetNone
  /\ UNCHANGED <<basis, u, ax, calls, nprobe, top, ip, k, frame, err, fault, ncalls,
                 vecVars>>

---------------------------------------------------------------------------
(* plot_vec3d.py: plot_vec (lines 5-8) and plot_coeffs (lines 23-28) *)

Vecs == {<<1, 0, 0>>, <<0, 2, 1>>}
Origins == {<<1, 1, 0>>}
Xs == {<<2, 3>>, <<-1, 1>>}
Styles == {"r", "b--"}

VecAdd(a, b) == [i \in 1..3 |-> a[i] + b[i]]
VecScale(c, a) == [i \in 1..3 |-> c * a[i]]

\* faulty variant: the sum taken in place: o += v; w = o
PlotVecBodyInPlace(v, o) == [w |-> VecAdd(v, o), v |-> v, o |-> VecAdd(v, o)]

\* the body of plot_vec up to the draw call: w = v + o makes a new array;
\* v and o are the arrays as they are afterwards
PlotVecBody(v, o) == [w |-> VecAdd(v, o), v |-> v, o |-> o]

\* plt.gca().plot([w[0], o[0]], [w[1], o[1]], [w[2], o[2]], *args) (line 8)
VecSegment(w, o, args) ==
  [xs |-> <<w[1], o[1]>>, ys |-> <<w[2], o[2]>>, zs |-> <<w[3], o[3]>>, fmt |-> args]

\* the binding of plot_vec's parameters: o is the default array when the
\* call gives none (line 5)
EnterPlotVec(v, args, dflt, og) ==
  [v |-> v, o |-> IF dflt THEN odef ELSE og, dflt |-> dflt, args |-> args,
   vafter |-> v, oafter |-> IF dflt THEN odef ELSE og]

\* the caller calls plot_vec(v, *args) or plot_vec(v, *args, o=og)
CallPlotVec ==
  \E v \in Vecs, args \in Styles, dflt \in BOOLEAN, og \in Origins :
    /\ Begin("plot_vec")
    /\ fn' = "plot_vec"
    /\ vcall' = EnterPlotVec(v, args, dflt, og)
    /\ UNCHANGED <<samplerVars, ax, ip, odef, cf>>

\* lines 7-8: w = v + o and the draw call, which draws or raises; then
\* plot_vec returns to plot_coeffs or to the caller
PlotVecDraw ==
  LET body == PlotVecBody(vcall.v, vcall.o)
  IN  /\ fn = "plot_vec"
      /\ odef' = IF vcall.dflt THEN body.o ELSE odef
      /\ vcall' = [vcall EXCEPT !.vafter = body.v, !.oafter = body.o]
      /\ \E ok \in BOOLEAN :
           IF ok
           THEN /\ ax' = Append(ax, VecSegment(body.w, body.o, vcall.args))
                /\ IF top.op = "plot_coeffs"
                   THEN /\ fn' = "plot_coeffs"
                        /\ ip' = ip + 1
                        /\ UNCHANGED ret
                   ELSE /\ fn' = "caller"
                        /\ ret' = RetNone
                        /\ UNCHANGED ip
                /\ UNCHANGED <<err, fault>>
           ELSE /\ fn' = Raise("DrawError", top.op).fn
                /\ err' = Raise("DrawError", top.op).err
                /\ fault' = "DrawError"
                /\ UNCHANGED <<ax, ip, ret>>
      /\ UNCHANGED <<samplerVars, top, ncalls, cf>>

\* faulty variant: the third vector based at the tip of itself
CoeffsCallsWrongBase(x, a0, a1) ==
  << [v |-> VecScale(x[1], a0), dflt |-> TRUE,  o |-> Zero3],
     [v |-> VecScale(x[2], a1), dflt |-> TRUE,  o |-> Zero3],
     [v |-> VecScale(x[1], a0), dflt |-> FALSE, o |-> VecScale(x[1], a0)],
     [v |-> VecScale(x[2], a1), dflt |-> FALSE, o |-> VecScale(x[1], a0)] >>

\* the four plot_vec calls of plot_coeffs, in program order (lines 25-28):
\* the vector, and the origin (dflt: none given, so plot_vec's default)
CoeffsCalls(x, a0, a1) ==
  << [v |-> VecScale(x[1], a0), dflt |-> TRUE,  o |-> Zero3],
     [v |-> VecScale(x[2], a1), dflt |-> TRUE,  o |-> Zero3],
     [v |-> VecScale(x[1], a0), dflt |-> FALSE, o |-> VecScale(x[2], a1)],
     [v |-> VecScale(x[2], a1), dflt |-> FALSE, o |-> VecScale(x[1], a0)] >>

\* the keyword arguments plot_coeffs accepts: def plot_coeffs(x, a0, a1, *args)
\* has no parameter o, and a call that passes o=... is a TypeError (line 23)
CoeffsAcceptsOrigin == FALSE

\* the caller calls plot_coeffs(x, a0, a1, *args), or passes o=og as well
CallPlotCoeffs ==
  \E x \in Xs, a0 \in Vecs, a1 \in Vecs, args \in Styles,
     kw \in BOOLEAN, og \in Origins :
    /\ a0 # a1
    /\ Begin("plot_coeffs")
    /\ fn' = "plot_coeffs"
    /\ ip' = 0
    /\ cf' = [x |-> x, a0 |-> a0, a1 |-> a1, args |-> args, kw |-> kw,
              o |-> IF kw THEN og ELSE Zero3]
    /\ UNCHANGED <<samplerVars, ax, odef, vcall>>

\* the binding of plot_coeffs' parameters (line 23)
CoeffsBind ==
  /\ fn = "plot_coeffs"
  /\ ip = 0
  /\ IF cf.kw /\ ~CoeffsAcceptsOrigin
     THEN /\ fn' = Raise("TypeError", top.op).fn
          /\ err' = Raise("TypeError", top.op).err
          /\ UNCHANGED <<ip, fault>>
     ELSE /\ ip' = 1
          /\ UNCHANGED <<fn, err, fault>>
  /\ UNCHANGED <<samplerVars, ax, top, ret, ncalls, vecVars>>

\* the ip-th of the four calls (lines 25-28)
CoeffsCallVec ==
  /\ fn = "plot_coeffs"
  /\ ip \in DOMAIN CoeffsCalls(cf.x, cf.a0, cf.a1)
  /\ fn' = "plot_vec"
  /\ vcall' = EnterPlotVec(CoeffsCalls(cf.x, cf.a0, cf.a1)[ip].v, cf.args,
                           CoeffsCalls(cf.x, cf.a0, cf.a1)[ip].dflt,
                           CoeffsCalls(cf.x, cf.a0, cf.a1)[ip].o)
  /\ UNCHANGED <<samplerVars, ax, top, ip, err, fault, ret, ncalls, odef, cf>>

\* the end of plot_coeffs
CoeffsReturn ==
  /\ fn = "plot_coeffs"
  /\ ip > Len(CoeffsCalls(cf.x, cf.a0, cf.a1))
  /\ fn' = "caller"
  /\ ret' = RetNone
  /\ UNCHANGED <<samplerVars, ax, top, ip, err, fault, ncalls, vecVars>>

---------------------------------------------------------------------------
(* Specifications *)

InitCommon ==
  /\ ax = <<>>
  /\ calls = <<>>
  /\ nprobe = 0
  /\ top = NoTop
  /\ fn = "caller"
  /\ ip = 1
  /\ k = 1
  /\ frame = NoFrame
  /\ err = "none"
  /\ fault = "none"
  /\ ret = RetUnset
  /\ ncalls = 0
  /\ odef = Zero3
  /\ vcall = NoVCall
  /\ cf = NoCf

\* the field cross-section sampler: the caller holds some basis and some
\* coefficient vector (whose length may or may not fit the basis)
Init ==
  /\ basis \in MeshNames
  /\ u \in Coeffs
  /\ InitCommon

Next ==
  \/ CallCrossSec
  \/ CrossSecProbe
  \/ CrossSecMatVec
  \/ CrossSecDashed
  \/ CrossSecSolid
  \/ CrossSecReturn
  \/ CallFacetVals
  \/ FacetCall
  \/ FacetReturn
  \/ CallNodalVals
  \/ NodalProbe
  \/ NodalMatVec
  \/ NodalMarkers
  \/ NodalDropLine
  \/ NodalReturn

Spec == Init /\ [][Next]_vars

\* the vector drawing helper
InitVec ==
  /\ basis = "refdom"
  /\ u = <<1, 2, 3>>
  /\ InitCommon

NextVec ==
  \/ CallPlotVec
  \/ PlotVecDraw
  \/ CallPlotCoeffs
  \/ CoeffsBind
  \/ CoeffsCallVec
  \/ CoeffsReturn

SpecVec == InitVec /\ [][NextVec]_vars

---------------------------------------------------------------------------
(* Properties of the field cross-section sampler (specification Spec) *)

\* the draw calls issued since the caller's current call started
Drawn == SubSeq(ax, top.n0 + 1, Len(ax))

\* the invocations of plot_cross_sec since the caller's current call started
Invoked == SubSeq(calls, top.c0 + 1, Len(calls))

\* the caller's call o has returned normally
Returned(o) == top.op = o /\ fn = "caller" /\ err = "none" /\ ret.kind # "unset"

\* an invocation of plot_cross_sec has executed its last statement
CrossSecCompleted == fn = "plot_cross_sec" /\ ip > Len(CrossSecBody)

\* the i-th sample of the segment ps before the nudge, in units of 1/Den
RawX(ps, i) == 3 * ((49 - (i - 1)) * ps[1][1] + (i - 1) * ps[2][1])
RawY(ps, i) == 3 * ((49 - (i - 1)) * ps[1][2] + (i - 1) * ps[2][2])

\* the sum of the d-th coordinates of the nodes of mesh b divided by 3, in
\* units of 1/Den
ThirdOfSum(b, d) == 49 * SumCoord(b, d, NumNodes(b))

\* the samples of the segment ps on mesh b after the nudge, xs and ys: every
\* coordinate c replaced by (1-s)*c + s*m, with s = 10*eps and m the sum of
\* the x coordinates of the nodes divided by 3 (for xs and for ys alike)
NudgedSamples(b, ps) ==
  LET m == ThirdOfSum(b, 1)
  IN  [xs |-> [i \in 1..50 |-> <<RawX(ps, i), 10 * (m - RawX(ps, i))>>],
       ys |-> [i \in 1..50 |-> <<RawY(ps, i), 10 * (m - RawY(ps, i))>>]]

\* C1: while plot_facet_vals runs and after it, the invocations of
\* plot_cross_sec it has made are those for the facets 1, 2, ... of the mesh
\* in order, one each: the i-th has as endpoints the coordinates of the two
\* nodes of the i-th facet, and the u and basis plot_facet_vals was given; the
\* count is the loop's progress, and all the facets once it has returned.
C1_OncePerFacet ==
  top.op = "plot_facet_vals" =>
    /\ Len(Invoked) <= Len(Mesh(basis).facets)
    /\ \A i \in DOMAIN Invoked :
         /\ Invoked[i].ps = << Mesh(basis).p[Mesh(basis).facets[i][1]],
                               Mesh(basis).p[Mesh(basis).facets[i][2]] >>
         /\ Invoked[i].u = u
         /\ Invoked[i].basis = basis
    /\ (fn = "plot_cross_sec" => Len(Invoked) = k)
    /\ (fn = "plot_facet_vals" => Len(Invoked) = k - 1)
    /\ (Returned("plot_facet_vals") => Len(Invoked) = Len(Mesh(basis).facets))

\* plot_facet_vals has returned after sampling the three facets of the
\* reference triangle, with draw calls already in the context before it
C1_Witness ==
  /\ Returned("plot_facet_vals")
  /\ basis = "refdom"
  /\ Len(Invoked) = 3
  /\ Len(Drawn) = 6
  /\ top.c0 > 0

\* C2: when an invocation of plot_cross_sec has executed its last statement,
\* basis.probes has been called once in it, on the nudged points; the two
\* lines it drew are the dashed line over the nudged xs, ys at height zero
\* and then the solid line over the same xs, ys with zs = probes(nudged) @ u.
C2_ThinComposition ==
  CrossSecCompleted =>
    LET nud == NudgedSamples(frame.basis, frame.ps)
        pts == [i \in 1..50 |-> <<nud.xs[i], nud.ys[i]>>]
        n   == Len(ax)
    IN  /\ frame.np = 1
        /\ frame.parg = pts
        /\ n = frame.n0 + 2
        /\ ax[n - 1] = [xs |-> nud.xs, ys |-> nud.ys,
                        zs |-> [i \in 1..50 |-> <<0, 0>>], fmt |-> "k--"]
        /\ ax[n] = [xs |-> nud.xs, ys |-> nud.ys,
                    zs |-> MatVec(Probes(frame.basis, pts), frame.u), fmt |-> "k"]

\* an invocation over the hypotenuse of the reference triangle has completed:
\* its samples differ from the un-nudged ones
C2_Witness ==
  /\ CrossSecCompleted
  /\ frame.ps = << <<1, 0>>, <<0, 1>> >>
  /\ frame.parg[1] # << <<147, 0>>, <<0, 0>> >>
  /\ frame.np = 1

\* C3 as stated: a call of plot_cross_sec that returns normally returns a
\* triple (xs, ys, zs) of sequences of length 50.
C3_ReturnsTriple ==
  Returned("plot_cross_sec") =>
    /\ ret.kind = "triple"
    /\ Len(ret.val) = 3
    /\ \A j \in 1..3 : Len(ret.val[j]) = 50

\* C3 amended: plot_cross_sec returns nothing (None); the xs, ys and zs of
\* the two lines a completed invocation has drawn each have length 50,
\* whatever the endpoints.
C3_FiftySamplesDrawn ==
  /\ Returned("plot_cross_sec") => ret = RetNone
  /\ CrossSecCompleted =>
       \A j \in {Len(ax) - 1, Len(ax)} :
         Len(ax[j].xs) = 50 /\ Len(ax[j].ys) = 50 /\ Len(ax[j].zs) = 50

\* a direct call of plot_cross_sec has returned, having drawn its two lines
C3_Witness ==
  /\ Returned("plot_cross_sec")
  /\ Len(Drawn) = 2
  /\ Len(ax[Len(ax)].zs) = 50

\* C5: in a call of plot_nodal_vals, basis.probes is called at most once, on
\* the node coordinates as they are; the first draw call is the point markers
\* over all nodes with zs = probes(nodes) @ u, and the draw calls after it are
\* the dotted drop lines of the nodes 1, 2, ... in order, the i-th from
\* (x_i, y_i, 0) to (x_i, y_i, zs_i); once the call has returned there is one
\* drop line per node.
C5_OneValuePerNode ==
  top.op = "plot_nodal_vals" =>
    LET p   == Mesh(basis).p
        pts == [i \in DOMAIN p |-> << <<147 * p[i][1], 0>>, <<147 * p[i][2], 0>> >>]
        z   == MatVec(Probes(basis, pts), u)
    IN  /\ frame.np <= 1
        /\ Len(Drawn) <= Len(p) + 1
        /\ Len(Drawn) > 0 =>
             /\ frame.np = 1
             /\ frame.parg = pts
             /\ Len(z) = Len(p)
             /\ Drawn[1] = [xs |-> [i \in DOMAIN p |-> pts[i][1]],
                            ys |-> [i \in DOMAIN p |-> pts[i][2]],
                            zs |-> z, fmt |-> "ko"]
             /\ \A i \in 1..(Len(Drawn) - 1) :
                  Drawn[i + 1] = [xs |-> <<pts[i][1], pts[i][1]>>,
                                  ys |-> <<pts[i][2], pts[i][2]>>,
                                  zs |-> << <<0, 0>>, z[i] >>, fmt |-> "k:"]
        /\ Returned("plot_nodal_vals") => Len(Drawn) = Len(p) + 1

\* plot_nodal_vals has returned on the square mesh: four different values
C5_Witness ==
  /\ Returned("plot_nodal_vals")
  /\ basis = "square"
  /\ Len(Drawn) = 5
  /\ Drawn[5].zs = << <<0, 0>>, <<4 * 147, 0>> >>
  /\ Drawn[2].zs = << <<0, 0>>, <<147, 0>> >>

\* the end-to-end scenario of C6: reference triangle, u = [1, 2, 3], the
\* segment (0,0)-(1,0), the invocation completed
C6_Scenario ==
  /\ CrossSecCompleted
  /\ frame.basis = "refdom"
  /\ frame.u = <<1, 2, 3>>
  /\ frame.ps = << <<0, 0>>, <<1, 0>> >>

\* the square of the distance of the i-th drawn sample from the point P, in
\* units of (eps/Den)^2; -1 when the distance is not of the order of eps
DispSq(i, P) ==
  LET line == ax[Len(ax)]
  IN  IF line.xs[i][1] = 147 * P[1] /\ line.ys[i][1] = 147 * P[2]
      THEN line.xs[i][2] * line.xs[i][2] + line.ys[i][2] * line.ys[i][2]
      ELSE -1

\* C6 as stated: in the scenario zs runs linearly from 1 to 2 (up to terms of
\* the order of eps), and the first and the last sample are each within
\* 10*eps*||midpoint|| of the exact endpoint, midpoint = (1/3, 1/3).
C6_EndpointsWithinBound ==
  C6_Scenario =>
    /\ \A i \in 1..50 : ax[Len(ax)].zs[i][1] = 147 + 3 * (i - 1)
    /\ DispSq(1, <<0, 0>>) >= 0
    /\ DispSq(1, <<0, 0>>) <= 100 * (49 * 49 + 49 * 49)
    /\ DispSq(50, <<1, 0>>) >= 0
    /\ DispSq(50, <<1, 0>>) <= 100 * (49 * 49 + 49 * 49)

\* C6 amended: in the scenario zs[i] = 1 + t_i + 10*eps*(1 - t_i), from
\* 1 + 10*eps at t = 0 to 2 at t = 1; the first sample is displaced from (0,0)
\* by 10*eps*||midpoint||, and the last sample from (1,0) by
\* 10*eps*||midpoint - (1,0)|| = 10*eps*sqrt(5)/3, which is more than
\* 10*eps*||midpoint|| = 10*eps*sqrt(2)/3.
C6_EndpointDisplacement ==
  C6_Scenario =>
    /\ \A i \in 1..50 :
         ax[Len(ax)].zs[i] = <<147 + 3 * (i - 1), 10 * (147 - 3 * (i - 1))>>
    /\ DispSq(1, <<0, 0>>) = 100 * (49 * 49 + 49 * 49)
    /\ DispSq(50, <<1, 0>>) = 100 * ((49 - 147) * (49 - 147) + 49 * 49)
    /\ DispSq(50, <<1, 0>>) > 100 * (49 * 49 + 49 * 49)

\* the scenario has been run to completion
C6_Witness ==
  /\ C6_Scenario
  /\ Len(ax[Len(ax)].zs) = 50
  /\ ax[Len(ax)].fmt = "k"

\* an invocation of plot_cross_sec is running: frame holds its locals
InCrossSec == fn = "plot_cross_sec"

\* C7 as stated: on every mesh each sample (x, y) of plot_cross_sec is
\* (1-s)*(x, y) + s*(m, m) with s = 10*eps and m the mean of the x
\* coordinates of all the nodes of the mesh.
C7_TargetIsMean ==
  InCrossSec =>
    \A i \in 1..50 :
      /\ frame.xs[i][1] = RawX(frame.ps, i)
      /\ frame.ys[i][1] = RawY(frame.ps, i)
      /\ NumNodes(frame.basis) * (frame.xs[i][2] + 10 * RawX(frame.ps, i))
           = 10 * 147 * SumCoord(frame.basis, 1, NumNodes(frame.basis))
      /\ NumNodes(frame.basis) * (frame.ys[i][2] + 10 * RawY(frame.ps, i))
           = 10 * 147 * SumCoord(frame.basis, 1, NumNodes(frame.basis))

\* C7 amended: m is the sum of the x coordinates of all the nodes divided by
\* 3, which is their mean only on a mesh of three nodes.
C7_TargetIsThirdOfSum ==
  InCrossSec =>
    /\ frame.midpoint = <<ThirdOfSum(frame.basis, 1), ThirdOfSum(frame.basis, 2)>>
    /\ frame.xs = NudgedSamples(frame.basis, frame.ps).xs
    /\ frame.ys = NudgedSamples(frame.basis, frame.ps).ys

\* an invocation on the four-node mesh whose centroid has different x and y
C7_Witness ==
  /\ InCrossSec
  /\ frame.basis = "wedge"
  /\ frame.midpoint = <<147, 49>>
  /\ frame.ys[1] = <<0, 1470>>

\* the exceptions of the probe and of the product probe @ u
ProbeFaults == {"ProbeError", "ShapeError"}

\* what holds of a state in which the caller's call has raised
RaisedState ==
  err # "none" =>
    /\ fn = "caller"
    /\ err = fault
    /\ ret = RetUnset
    /\ (top.op = "plot_facet_vals" => Len(Invoked) = k)

\* C8: an exception raised by basis.probes, by probe @ u or by a draw call
\* reaches the caller as it was raised and ends the call; as long as the
\* caller makes no new call nothing more is probed, invoked or drawn (no
\* retry, no later statement, no later facet).
C8_FailurePropagates ==
  [][/\ RaisedState'
     /\ (err # "none" /\ ncalls' = ncalls) => UNCHANGED <<ax, calls, nprobe, frame, err>>
    ]_vars

\* plot_facet_vals has raised a draw error at its second facet
C8_Witness ==
  /\ top.op = "plot_facet_vals"
  /\ err = "DrawError"
  /\ Len(Invoked) = 2
  /\ Len(Drawn) = 3
  /\ Len(Mesh(basis).facets) > 2

\* the dashed line plot_cross_sec draws for the i-th facet of the caller's mesh
FacetDashed(i) ==
  LET nud == NudgedSamples(basis, calls[top.c0 + i].ps)
  IN  [xs |-> nud.xs, ys |-> nud.ys, zs |-> [j \in 1..50 |-> <<0, 0>>], fmt |-> "k--"]

\* what holds of a state in which the probe or the product has raised
ProbeRaisedState ==
  err \in ProbeFaults =>
    /\ Len(ax) = frame.n0
    /\ top.op \in {"plot_cross_sec", "plot_nodal_vals"} => Len(ax) = top.n0
    /\ top.op = "plot_facet_vals" =>
         /\ Len(ax) - top.n0 = 2 * (Len(Invoked) - 1)
         /\ \A i \in 1..(Len(Invoked) - 1) :
              /\ ax[top.n0 + 2 * i - 1] = FacetDashed(i)
              /\ ax[top.n0 + 2 * i].fmt = "k"
              /\ ax[top.n0 + 2 * i].xs = ax[top.n0 + 2 * i - 1].xs
              /\ ax[top.n0 + 2 * i].ys = ax[top.n0 + 2 * i - 1].ys

\* C9: when basis.probes or probe @ u raises, the invocation of
\* plot_cross_sec or plot_nodal_vals has issued no draw call, and the raising
\* step leaves the context and u as they were; when plot_facet_vals fails in
\* this way on its k-th facet, what it has drawn is the dashed line and then
\* the solid line of each of the k-1 facets before, and nothing for facet k.
C9_ProbeBeforeDraw ==
  [][(err = "none" /\ err' \in ProbeFaults) =>
       (ProbeRaisedState' /\ ax' = ax /\ u' = u)
    ]_vars

\* plot_facet_vals on the wedge: the probe rejects the second facet, whose
\* nudged samples leave the mesh; the first facet's two lines are drawn, after
\* the draw calls of an earlier call
C9_Witness ==
  /\ top.op = "plot_facet_vals"
  /\ err = "ProbeError"
  /\ basis = "wedge"
  /\ Len(Invoked) = 2
  /\ Len(Drawn) = 2
  /\ top.n0 > 0

---------------------------------------------------------------------------
(* Properties of the vector drawing helper (specification SpecVec) *)

\* the draw call of a segment between the points a and b, a first
Segment(a, b, style) ==
  [xs |-> <<a[1], b[1]>>, ys |-> <<a[2], b[2]>>, zs |-> <<a[3], b[3]>>, fmt |-> style]

\* x0*a0 and x1*a1 of the current call of plot_coeffs, and the far corner
Side0 == <<cf.x[1] * cf.a0[1], cf.x[1] * cf.a0[2], cf.x[1] * cf.a0[3]>>
Side1 == <<cf.x[2] * cf.a1[1], cf.x[2] * cf.a1[2], cf.x[2] * cf.a1[3]>>
Plus(a, b) == <<a[1] + b[1], a[2] + b[2], a[3] + b[3]>>

\* the four segments of the decomposition drawn from the origin og: each runs
\* between its tip (first) and its base point
Parallelogram(og) ==
  << Segment(Plus(og, Side0), og, cf.args),
     Segment(Plus(og, Side1), og, cf.args),
     Segment(Plus(Plus(og, Side1), Side0), Plus(og, Side1), cf.args),
     Segment(Plus(Plus(og, Side0), Side1), Plus(og, Side0), cf.args) >>

\* C4 as stated: whatever origin the call of plot_coeffs asks for (the zero
\* vector when it asks for none), unless a draw call fails the call draws
\* exactly the four segments of the decomposition from that origin, in order.
C4_DrawsFromAnyOrigin ==
  (top.op = "plot_coeffs" /\ fn = "caller" /\ err # "DrawError") =>
    /\ err = "none"
    /\ Drawn = Parallelogram(cf.o)

\* C4 amended: plot_coeffs has no origin parameter.  A call that names none
\* draws, unless a draw call fails, exactly four segments in this order:
\* x0*a0 from the zero vector, x1*a1 from the zero vector, x0*a0 from x1*a1
\* and x1*a1 from x0*a0, the last two ending at x0*a0 + x1*a1; a call that
\* passes an origin raises a TypeError and draws nothing.
C4_DrawsFromZeroOrigin ==
  /\ Returned("plot_coeffs") =>
       /\ ~cf.kw
       /\ Drawn = Parallelogram(<<0, 0, 0>>)
       /\ Drawn[3].xs[1] = Drawn[4].xs[1]
       /\ Drawn[3].ys[1] = Drawn[4].ys[1]
       /\ Drawn[3].zs[1] = Drawn[4].zs[1]
  /\ (top.op = "plot_coeffs" /\ fn = "caller" /\ cf.kw) =>
       /\ err = "TypeError"
       /\ Len(Drawn) = 0

\* plot_coeffs has returned for x = (2, 3), a0 = (1, 0, 0), a1 = (0, 2, 1):
\* the far corner is (2, 6, 3)
C4_Witness ==
  /\ Returned("plot_coeffs")
  /\ cf.x = <<2, 3>>
  /\ cf.a0 = <<1, 0, 0>>
  /\ cf.a1 = <<0, 2, 1>>
  /\ Len(Drawn) = 4
  /\ Drawn[4] = Segment(<<2, 6, 3>>, <<2, 0, 0>>, cf.args)

\* C10: the shared default origin of plot_vec is the zero vector in every
\* state; after plot_vec has run, the arrays given as v and as o are as they
\* were given; a call without origin that returns has drawn the segment
\* between v and (0, 0, 0).
C10_DefaultOriginIntact ==
  /\ odef = <<0, 0, 0>>
  /\ vcall # NoVCall => (vcall.vafter = vcall.v /\ vcall.oafter = vcall.o)
  /\ (Returned("plot_vec") /\ vcall.dflt) =>
       ax[Len(ax)] = Segment(vcall.v, <<0, 0, 0>>, vcall.args)

\* a call of plot_vec without origin has returned, after a call of
\* plot_coeffs that drew its four segments (two with the default origin, two
\* with an explicit one)
C10_Witness ==
  /\ Returned("plot_vec")
  /\ vcall.dflt
  /\ vcall.v = <<0, 2, 1>>
  /\ Len(ax) = 5
  /\ top.n0 = 4

====
